---- MODULE Spec2Model ----
(***************************************************************************)
(* A model of the Markov-chain engine of the robot repository.             *)
(*                                                                         *)
(*   - v2/brain/learn.go: Tuple, Learner, Learn, Forget, tupleToks         *)
(*   - robot.go: Filter, Walk                                              *)
(*                                                                         *)
(* The storage backends (kvbrain, sqlbrain), brain.ReduceEntropy and       *)
(* brain.Speak are not part of the sources at hand; their models follow    *)
(* the written contract (Learner's doc comments and the specification).    *)
(***************************************************************************)
EXTENDS Integers, Sequences, FiniteSets, TLC

\* ------------------------------------------------------------------ bounds

\* Longest token sequence given to the tuple builder.
MaxToks == 3
\* Largest order a backend is configured with.
MaxOrder == 3
\* Number of messages the engine learns in one run (message IDs 1..MaxMsgs).
MaxMsgs == 2

\* Longest message (in words) the bot learns from.
MaxWords == 4
\* Number of messages the bot learns before it speaks.
MaxLearned == 1
\* Largest chain order (-length) the bot runs with.
MaxPrefix == 2
\* Number of generated words the model keeps of a walk's output.
MaxOut == 3

\* Number of walks the speak command is asked for: -n.
MaxWalks == 3

\* ------------------------------------------------------------------ helpers

SeqsUpTo(S, k) == UNION {[1..m -> S] : m \in 0..k}

Range(s) == {s[i] : i \in 1..Len(s)}

RECURSIVE CountIn(_, _)
\* Number of entries of the sequence s that equal x.
CountIn(s, x) ==
    IF s = <<>> THEN 0
    ELSE (IF Head(s) = x THEN 1 ELSE 0) + CountIn(Tail(s), x)

\* ------------------------------------------------------------------ tokens

\* The empty token: start padding of a prefix and end-of-message suffix.
Sentinel == ""

\* Tokens the tuple builder is exercised with.
BuilderTokens == {"hi", "Hi", "hello", "world"}

\* Entropy reduction of a token (case folding); the identity on the sentinel.
ReduceEntropy(w) ==
    CASE w = "Hi" -> "hi"
      [] w = "Hello" -> "hello"
      [] w = "B" -> "b"
      [] OTHER -> w

\* ------------------------------------------------------------------ tuples

Tuple(p, w) == [Prefix |-> p, Suffix |-> w]

\* make([]string, n): n empty strings.
EmptyPrefix(n) == [j \in 1..n |-> ""]

\* The loop body of tupleToks: a fresh tuple q whose prefix is p's prefix
\* shifted left by one with the reduced suffix of p in the last slot.
shiftNoSlide(p, w, n) ==
    Tuple([j \in 1..n |-> IF j < n THEN p.Prefix[j] ELSE ReduceEntropy(p.Suffix)], w)

shiftReducedSuffix(p, w, n) ==
    Tuple([j \in 1..n |-> IF j < n THEN p.Prefix[j + 1] ELSE ReduceEntropy(p.Suffix)],
          ReduceEntropy(w))

shift(p, w, n) ==
    Tuple([j \in 1..n |-> IF j < n THEN p.Prefix[j + 1] ELSE ReduceEntropy(p.Suffix)], w)

RECURSIVE tupleLoop(_, _, _, _, _)
\* for _, w := range toks { q := shift(p, w); tt = append(tt, q); p = q }
\* The result carries tt and the last p.
tupleLoop(tt, toks, i, p, n) ==
    IF i > Len(toks) THEN [tt |-> tt, p |-> p]
    ELSE LET q == shift(p, toks[i], n)
         IN tupleLoop(Append(tt, q), toks, i + 1, q, n)

tupleToksNoEnd(tt, toks, n) ==
    tupleLoop(tt, toks, 1, Tuple(EmptyPrefix(n), ""), n).tt

tupleToks(tt, toks, n) ==
    LET r == tupleLoop(tt, toks, 1, Tuple(EmptyPrefix(n), ""), n)
    IN Append(r.tt, shift(r.p, "", n))

\* ------------------------------------------------------------------ the backend

\* One persisted occurrence of a tuple: the tuple, its tag and its message.
Occ(tag, t, id) == [tag |-> tag, prefix |-> t.Prefix, suffix |-> t.Suffix, id |-> id]

\* Whether occurrence o records tuple t under tag.
Matches(o, tag, t) == o.tag = tag /\ o.prefix = t.Prefix /\ o.suffix = t.Suffix

\* Learner.Learn: every tuple is persisted, in order, with the message's ID.
LearnerLearn(st, meta, tuples) ==
    st \o [i \in 1..Len(tuples) |-> Occ(meta.Tag, tuples[i], meta.ID)]

\* The store without its occurrence at index i.
DropAt(st, i) == [j \in 1..(Len(st) - 1) |-> IF j < i THEN st[j] ELSE st[j + 1]]

\* The store without the first (oldest) occurrence of t under tag, if any.
ForgetOne(st, tag, t) ==
    LET hits == {i \in 1..Len(st) : Matches(st[i], tag, t)}
    IN IF hits = {} THEN st
       ELSE DropAt(st, CHOOSE i \in hits : \A j \in hits : i <= j)

RECURSIVE LearnerForget(_, _, _)
\* Learner.Forget: for each tuple given, in order, the first occurrence under
\* the tag is deleted; a tuple that is not recorded is ignored.
LearnerForget(st, tag, tuples) ==
    IF tuples = <<>> THEN st
    ELSE LearnerForget(ForgetOne(st, tag, Head(tuples)), tag, Tail(tuples))

\* The read primitive: the occurrences filed under (tag, prefix), oldest first.
LearnerLookup(st, tag, p) ==
    SelectSeq(st, LAMBDA o : o.tag = tag /\ o.prefix = p)

\* ------------------------------------------------------------------ the engine

\* What an engine call leaves behind: how it ended, the store, the tuples it
\* handed to the backend and the backend operations it invoked.
Result(outcome, st, handed, invoked) ==
    [outcome |-> outcome, store |-> st, handed |-> handed, invoked |-> invoked]

\* if n < 1 { panic(...) }
OrderError(st) == Result("error", st, <<>>, <<>>)

OrderPanic(st) == Result("panic", st, <<>>, <<>>)

\* Learn with the tag of the message replaced by a fixed one.
LearnDefaultTag(st, n, meta, toks) ==
    IF n < 1 THEN OrderPanic(st)
    ELSE LET tt == tupleToks(<<>>, toks, n)
         IN Result("ok", LearnerLearn(st, [meta EXCEPT !.Tag = "A"], tt), tt, <<"Learn">>)

\* brain.Learn
Learn(st, n, meta, toks) ==
    IF n < 1 THEN OrderPanic(st)
    ELSE LET tt == tupleToks(<<>>, toks, n)
         IN Result("ok", LearnerLearn(st, meta, tt), tt, <<"Learn">>)

\* Forget that forgets the tuples twice over.
ForgetTwice(st, n, tag, toks) ==
    IF n < 1 THEN OrderPanic(st)
    ELSE LET tt == tupleToks(<<>>, toks, n)
         IN Result("ok", LearnerForget(LearnerForget(st, tag, tt), tag, tt), tt,
                   <<"Forget", "Forget">>)

\* Forget that drops the end-of-message tuple before handing the tuples over.
ForgetNoEnd(st, n, tag, toks) ==
    IF n < 1 THEN OrderPanic(st)
    ELSE LET tt == tupleToksNoEnd(<<>>, toks, n)
         IN Result("ok", LearnerForget(st, tag, tt), tt, <<"Forget">>)

\* Forget that calls the backend's Learn.
ForgetLearns(st, n, tag, toks) ==
    IF n < 1 THEN OrderPanic(st)
    ELSE LET tt == tupleToks(<<>>, toks, n)
         IN Result("ok", LearnerLearn(st, [ID |-> 0, Tag |-> tag], tt), tt, <<"Learn">>)

\* brain.Forget
Forget(st, n, tag, toks) ==
    IF n < 1 THEN OrderPanic(st)
    ELSE LET tt == tupleToks(<<>>, toks, n)
         IN Result("ok", LearnerForget(st, tag, tt), tt, <<"Forget">>)

\* ------------------------------------------------------------------ robot.go: strings

\* A Go string is the sequence of its bytes, each a one-character string.
SOH == "^A"
NUL == "^@"
SP == " "

\* "\x00", the end of a message in the chain.
EndWord == <<NUL>>
\* "\x01", the start marker of the chain's keys.
StartWord == <<SOH>>

\* strings.ToLower
ToLower(str) == [i \in 1..Len(str) |-> IF str[i] = "B" THEN "b" ELSE str[i]]

RECURSIVE Join(_, _)
\* strings.Join(ws, sep)
Join(ws, sep) ==
    IF ws = <<>> THEN <<>>
    ELSE IF Len(ws) = 1 THEN ws[1]
    ELSE ws[1] \o sep \o Join(Tail(ws), sep)

RECURSIVE Repeat(_, _)
\* strings.Repeat(str, k)
Repeat(str, k) == IF k <= 0 THEN <<>> ELSE str \o Repeat(str, k - 1)

RECURSIVE TrimRight(_)
\* strings.TrimRight(str, " ")
TrimRight(str) ==
    IF str # <<>> /\ str[Len(str)] = SP THEN TrimRight(SubSeq(str, 1, Len(str) - 1))
    ELSE str

RECURSIVE FieldsFrom(_, _, _)
\* The fields of str given the fields before it and the field being read.
FieldsFrom(str, done, cur) ==
    IF str = <<>> THEN (IF cur = <<>> THEN done ELSE Append(done, cur))
    ELSE IF Head(str) = SP
         THEN FieldsFrom(Tail(str), IF cur = <<>> THEN done ELSE Append(done, cur), <<>>)
         ELSE FieldsFrom(Tail(str), done, Append(cur, Head(str)))

\* strings.Fields
Fields(str) == FieldsFrom(str, <<>>, <<>>)

\* ------------------------------------------------------------------ robot.go: the chain

\* c[key] = append(c[key], w)
Add(c, key, w) ==
    [x \in DOMAIN c \cup {key} |->
        IF x = key THEN (IF key \in DOMAIN c THEN Append(c[key], w) ELSE <<w>>)
        ELSE c[x]]

\* The key of the walk's start: strings.Repeat("\x01 ", prefix).
StartKey(n) == Repeat(<<SOH, SP>>, n)

RECURSIVE Filter(_, _, _)
RECURSIVE FilterRamp(_, _, _, _)
RECURSIVE FilterRest(_, _, _, _)

\* for i := 0; i < prefix; i++ { ... }: the keys padded with start markers.
FilterRamp(c, words, i, n) ==
    IF i >= n THEN FilterRest(c, words, n, n)
    ELSE LET word == Repeat(<<SOH, SP>>, n - i) \o ToLower(Join(SubSeq(words, 1, i), <<SP>>))
         IN IF i >= Len(words) THEN Add(c, word, EndWord)
            ELSE FilterRamp(Add(c, word, words[i + 1]), words, i + 1, n)

\* for i := prefix; i < len(words); i++ { ... } and the end of the message.
FilterRest(c, words, i, n) ==
    LET end == ToLower(Join(SubSeq(words, Len(words) - n + 1, Len(words)), <<SP>>))
    IN IF i >= Len(words) THEN Add(c, end, EndWord)
       ELSE IF Len(words[i + 1]) = 0
            THEN (IF i < Len(words) - 1
                  THEN Filter(c, SubSeq(words, i + 2, Len(words)), n)
                  ELSE Add(c, end, EndWord))
            ELSE LET word == ToLower(Join(SubSeq(words, i - n + 1, i), <<SP>>))
                 IN FilterRest(Add(c, word, words[i + 1]), words, i + 1, n)

\* Filter(c, words) under the global prefix n.
Filter(c, words, n) == FilterRamp(c, words, 0, n)

\* The walk's limit on the length of what it generates: for sum < 400.
WalkLimit == 400

\* What an iteration of Walk's loop leaves of the chain: words := c[key] on a
\* Go map reads, and for a key that is absent yields nil without adding it.
WalkChainInserts(c, w) ==
    IF ToLower(w.word) \in DOMAIN c THEN c
    ELSE [x \in DOMAIN c \cup {ToLower(w.word)} |-> IF x \in DOMAIN c THEN c[x] ELSE <<>>]

WalkChain(c, w) == c

\* The iteration without the nil check: rand.Intn(0) panics.
WalkIterNilPanics(c, w, pick) ==
    [w EXCEPT !.pc = IF ToLower(w.word) \in DOMAIN c /\ c[ToLower(w.word)][pick] = EndWord
                     THEN "done" ELSE "panic",
              !.iter = 1 - w.iter]

\* The iteration that keeps the oldest word of the window: no [1:].
WalkIterKeepsOldest(c, w, pick) ==
    LET key == ToLower(w.word)
    IN IF key \notin DOMAIN c \/ c[key][pick] = EndWord
       THEN [w EXCEPT !.pc = "done", !.iter = 1 - w.iter]
       ELSE [pc |-> "loop",
             word |-> Join(Append(Fields(TrimRight(w.word)), c[key][pick]), <<SP>>),
             sum |-> w.sum + Len(c[key][pick]) + 1,
             s |-> IF Len(w.s) < MaxOut THEN Append(w.s, c[key][pick]) ELSE w.s,
             iter |-> 1 - w.iter]

\* One iteration of Walk's loop, from (word, sum, s), taking the suffix at
\* index pick of c[ToLower(word)]; pc tells whether the loop goes on, iter is
\* the parity of the number of iterations run.
WalkIter(c, w, pick) ==
    LET key == ToLower(w.word)
    IN IF key \notin DOMAIN c THEN [w EXCEPT !.pc = "done", !.iter = 1 - w.iter]
       ELSE LET nextword == c[key][pick]
                fields == Fields(TrimRight(w.word))
            IN IF nextword = EndWord THEN [w EXCEPT !.pc = "done", !.iter = 1 - w.iter]
               ELSE LET sum == IF nextword # StartWord
                               THEN w.sum + Len(nextword) + 1 ELSE w.sum
                        out == IF nextword # StartWord /\ Len(w.s) < MaxOut
                               THEN Append(w.s, nextword) ELSE w.s
                    IN IF fields = <<>>
                       THEN [w EXCEPT !.pc = "panic", !.sum = sum, !.s = out,
                                      !.iter = 1 - w.iter]
                       ELSE [pc |-> IF sum < WalkLimit THEN "loop" ELSE "done",
                             word |-> Join(Append(Tail(fields), nextword), <<SP>>),
                             sum |-> sum,
                             s |-> out,
                             iter |-> 1 - w.iter]

\* ------------------------------------------------------------------ state

VARIABLES
    order,      \* what the backend's Order() returns
    store,      \* the backend's occurrences, oldest first
    nextId,     \* ID of the next message to learn
    filed,      \* filed[id]: the tag message id was learned under
    last,       \* the last engine call: its arguments, its result, the store before
    build,      \* the tuple builder's input and output
    prefix,     \* robot.go: the order of the chain (-length)
    chain,      \* robot.go: the chain, key -> the suffixes recorded, in order
    learned,    \* robot.go: number of messages the chain was fed
    walk,       \* robot.go: the walk in progress: pc, word, sum, s, iter
    fault,      \* the error the last engine call returned to its caller
    batch,      \* the batch speak command: its workers, its output, its result
    bot,        \* robot.go: the main loop's settings and its run state
    dict,       \* robot.go: the contents of the dict file
    evt         \* robot.go: the last event the main loop handled

brainVars == <<order, store, nextId, filed, last>>
tupleVars == <<build>>
botVars == <<prefix, chain, learned, walk>>
moreVars == <<fault, batch, bot, dict, evt>>
vars == <<order, store, nextId, filed, last, build, prefix, chain, learned, walk,
          fault, batch, bot, dict, evt>>

\* ------------------------------------------------------------------ the tuple builder alone

\* The record of an engine call. undoes: the call is a Forget whose tag and
\* tokens are those of the Learn right before it; base is then the store
\* before that Learn (otherwise the store before the call itself).
Call(op, tag, toks, id, r, before, undoes, base, found) ==
    [op |-> op, tag |-> tag, toks |-> toks, id |-> id, outcome |-> r.outcome,
     handed |-> r.handed, invoked |-> r.invoked, before |-> before,
     undoes |-> undoes, base |-> base, found |-> found]

NoCall == Call("none", "", <<>>, 0, Result("none", <<>>, <<>>, <<>>), <<>>, FALSE, <<>>, <<>>)

\* No walk in progress.
NoWalk == [pc |-> "idle", word |-> <<>>, sum |-> 0, s |-> <<>>, iter |-> 0]

\* The state of the bot of robot.go while the v2 engine is exercised.
BotIdle ==
    /\ prefix = 1
    /\ chain = <<>>
    /\ learned = 0
    /\ walk = NoWalk

\* The state of the engine while only the tuple builder is exercised.
BrainIdle ==
    /\ order = 1
    /\ store = <<>>
    /\ nextId = 1
    /\ filed = <<>>
    /\ last = NoCall

\* The nil error.
NoError == [kind |-> "nil", op |-> "", tag |-> ""]

\* No batch speak command is running.
NoBatch == [w |-> <<>>, out |-> <<>>, first |-> NoError, ctx |-> "live",
            ret |-> [done |-> FALSE, err |-> NoError]]

\* The dict file does not exist.
NoFile == [exists |-> FALSE, json |-> {}]

\* The main loop of robot.go is not running.
NoBot == [pc |-> "off", respond |-> TRUE, sendprob |-> 0, chanset |-> {}, listening |-> {},
          ignored |-> {}, re |-> "nil"]

\* No event was handled yet.
NoEvent == [kind |-> "none"]

\* No engine call has failed: the backend returned nil and so did the engine.
NoFault == [backend |-> NoError, returned |-> NoError]

\* The state of the parts of the programs a specification does not exercise.
MoreIdle ==
    /\ fault = NoFault
    /\ batch = NoBatch
    /\ bot = NoBot
    /\ dict = NoFile
    /\ evt = NoEvent

InitTuples ==
    /\ build \in {[n |-> n, toks |-> t, tt |-> <<>>, done |-> FALSE] :
                    n \in 1..MaxOrder, t \in SeqsUpTo(BuilderTokens, MaxToks)}
    /\ BrainIdle
    /\ BotIdle
    /\ MoreIdle

\* tupleToks(make([]Tuple, 0, len(toks)+1), toks, n)
Build ==
    /\ ~build.done
    /\ build' = [build EXCEPT !.tt = tupleToks(<<>>, build.toks, build.n),
                              !.done = TRUE]
    /\ UNCHANGED <<brainVars, botVars, moreVars>>

NextTuples == Build

SpecTuples == InitTuples /\ [][NextTuples]_vars

\* Number of prefix entries that are not the sentinel.
NonSentinel(p) == Cardinality({j \in 1..Len(p) : p[j] # Sentinel})

\* The sliding-window reference: tuple i (0-based) of k tokens under order n.
RefTuple(toks, n, i) ==
    Tuple([j \in 1..n |->
              LET pos == i - n + (j - 1)
              IN IF pos >= 0 THEN ReduceEntropy(toks[pos + 1]) ELSE Sentinel],
          IF i < Len(toks) THEN toks[i + 1] ELSE Sentinel)

RefTuples(toks, n) == [i \in 1..(Len(toks) + 1) |-> RefTuple(toks, n, i - 1)]

\* C3: the tuple builder equals the sliding-window reference: tuple i has the
\* i-th token verbatim as suffix (the sentinel for i = k) and the reduced
\* tokens at positions i-n .. i-1 as prefix, padded with sentinels; the two
\* worked examples of the specification come out as written.
C3_BuilderIsSlidingWindow ==
    build.done =>
        /\ build.tt = RefTuples(build.toks, build.n)
        /\ (build.n = 1 /\ build.toks = <<"hi">>) =>
               build.tt = << Tuple(<<"">>, "hi"), Tuple(<<"hi">>, "") >>
        /\ (build.n = 2 /\ build.toks = <<"hello", "world">>) =>
               build.tt = << Tuple(<<"", "">>, "hello"),
                             Tuple(<<"", "hello">>, "world"),
                             Tuple(<<"hello", "world">>, "") >>

\* A built sequence longer than the order in which a token that entropy
\* reduction changes stands in a prefix and, verbatim, as a suffix.
C3_Witness ==
    /\ build.done
    /\ Len(build.toks) > build.n
    /\ build.n >= 2
    /\ \E i \in 1..Len(build.tt) :
          /\ build.tt[i].Suffix = "Hi"
          /\ i < Len(build.tt)
          /\ build.tt[i + 1].Prefix[build.n] = "hi"

\* C5 as written: for every k and n the first n tuples exist, tuple i has
\* exactly i non-sentinel prefix entries and the i-th token as suffix.
C5_EntryRampAsWritten ==
    build.done =>
        \A i \in 0..(build.n - 1) :
            /\ i + 1 <= Len(build.tt)
            /\ NonSentinel(build.tt[i + 1].Prefix) = i
            /\ i + 1 <= Len(build.toks)
            /\ build.tt[i + 1].Suffix = build.toks[i + 1]

Min(a, b) == IF a < b THEN a ELSE b

\* C5 (amended): of the k+1 tuples, tuple i for i < min(n, k+1) has exactly i
\* non-sentinel prefix entries, and for i < min(n, k) its suffix is the i-th
\* token; tuple k, when k < n, carries the end sentinel.
C5_EntryRamp ==
    build.done =>
        LET k == Len(build.toks) IN
        /\ \A i \in 0..(Min(build.n, k + 1) - 1) :
               NonSentinel(build.tt[i + 1].Prefix) = i
        /\ \A i \in 0..(Min(build.n, k) - 1) :
               build.tt[i + 1].Suffix = build.toks[i + 1]
        /\ k < build.n => build.tt[k + 1].Suffix = Sentinel

\* A built sequence with a full ramp: order 3 and at least three tokens.
C5_Witness ==
    /\ build.done
    /\ build.n >= 3
    /\ Len(build.toks) >= build.n
    /\ NonSentinel(build.tt[build.n].Prefix) = build.n - 1

\* ------------------------------------------------------------------ the engine over a backend

\* Tags the messages are filed under.
Tags == {"A", "B"}

\* Orders a backend may be configured with; 0 is a misconfiguration.
Orders == {0, 1, 2}

\* Token sequences of the messages learned and forgotten.
Corpus == {<<>>, <<"hi">>, <<"Hi", "hi">>, <<"hi", "hi", "hi">>}

\* Prefixes a lookup may ask for: reduced tokens and sentinels.
LookupPrefixes(n) == [1..n -> {Sentinel, "hi"}]

BuildIdle == build = [n |-> 1, toks |-> <<>>, tt |-> <<>>, done |-> TRUE]

Init ==
    /\ order \in Orders
    /\ store = <<>>
    /\ nextId = 1
    /\ filed = <<>>
    /\ last = NoCall
    /\ BuildIdle
    /\ BotIdle
    /\ MoreIdle

\* A message is learned: brain.Learn(ctx, l, meta, toks).
DoLearn ==
    \E tag \in Tags, toks \in Corpus :
        /\ nextId <= MaxMsgs
        /\ LET meta == [ID |-> nextId, Tag |-> tag]
               r == Learn(store, order, meta, toks)
           IN /\ store' = r.store
              /\ last' = Call("Learn", tag, toks, nextId, r, store, FALSE, store, <<>>)
        /\ nextId' = nextId + 1
        /\ filed' = Append(filed, tag)
        /\ UNCHANGED <<order, build, botVars, moreVars>>

\* A message is forgotten: brain.Forget(ctx, l, tag, toks).
DoForget ==
    \E tag \in Tags, toks \in Corpus :
        /\ LET r == Forget(store, order, tag, toks)
               undoes == /\ last.op = "Learn"
                         /\ last.outcome = "ok"
                         /\ last.tag = tag
                         /\ last.toks = toks
           IN /\ store' = r.store
              /\ last' = Call("Forget", tag, toks, 0, r, store, undoes,
                              IF undoes THEN last.before ELSE store, <<>>)
        /\ UNCHANGED <<order, nextId, filed, build, botVars, moreVars>>

\* The generation engine reads the occurrences filed under (tag, prefix).
DoLookup ==
    \E tag \in Tags, p \in LookupPrefixes(order) :
        /\ order >= 1
        /\ last' = Call("Lookup", tag, p, 0, Result("ok", store, <<>>, <<>>),
                        store, FALSE, store, LearnerLookup(store, tag, p))
        /\ UNCHANGED <<order, store, nextId, filed, build, botVars, moreVars>>

\* A backend instance whose Order() is below 1, a misconfiguration, is opened
\* over the persisted store (kvbrain.New, sqlbrain.Open).
Reopen ==
    /\ order >= 1
    /\ order' \in {n \in Orders : n < 1}
    /\ last' = NoCall
    /\ UNCHANGED <<store, nextId, filed, build, botVars, moreVars>>

Next ==
    \/ DoLearn
    \/ DoForget
    \/ DoLookup
    \/ Reopen

Spec == Init /\ [][Next]_vars

\* ------------------------------------------------------------------ properties of the engine

\* Number of occurrences of tuple t recorded under tag.
Count(st, tag, t) == Cardinality({i \in 1..Len(st) : Matches(st[i], tag, t)})

\* The occurrences of tuple t recorded under tag, oldest first.
Occurrences(st, tag, t) == SelectSeq(st, LAMBDA o : Matches(o, tag, t))

\* The tuples some occurrence of the store records.
TuplesOf(st) == {Tuple(st[i].prefix, st[i].suffix) : i \in 1..Len(st)}

\* The occurrences filed under tag, oldest first.
Under(st, tag) == SelectSeq(st, LAMBDA o : o.tag = tag)

\* Whether some tuple stands more than once in the sequence of tuples.
HasRepeat(tuples) == \E i, j \in 1..Len(tuples) : i < j /\ tuples[i] = tuples[j]

\* C1: a Forget right after a Learn with the same tag and tokens leaves the
\* occurrence count of every tuple, under every tag, at its value before the
\* Learn.
C1_LearnForgetRoundTrip ==
    (last.op = "Forget" /\ last.undoes /\ last.outcome = "ok") =>
        \A tag \in Tags :
            \A t \in TuplesOf(store) \cup TuplesOf(last.base) \cup Range(last.handed) :
                Count(store, tag, t) = Count(last.base, tag, t)

\* A round trip of a message in which one tuple occurs twice, over a store
\* that already recorded that tuple under the same tag.
C1_Witness ==
    /\ last.op = "Forget"
    /\ last.undoes
    /\ last.outcome = "ok"
    /\ HasRepeat(last.handed)
    /\ \E i, j \in 1..Len(last.handed) :
          /\ i < j
          /\ last.handed[i] = last.handed[j]
          /\ Count(last.base, last.tag, last.handed[i]) > 0
    /\ store # last.base

\* C2: a Forget removes, for each tuple it is given, at most one occurrence
\* under its tag, and always the oldest: of the occurrences of a tuple given m
\* times, the first min(m, recorded) are gone and the rest stay in order;
\* nothing is added and no other occurrence is touched.
C2_ForgetRemovesOldestOnce ==
    (last.op = "Forget" /\ last.outcome = "ok") =>
        /\ \A tag \in Tags :
            \A t \in TuplesOf(last.before) \cup TuplesOf(store) :
                LET was == Occurrences(last.before, tag, t)
                    m == IF tag = last.tag THEN CountIn(last.handed, t) ELSE 0
                    d == Min(m, Len(was))
                IN Occurrences(store, tag, t) = SubSeq(was, d + 1, Len(was))
        /\ Len(last.before) - Len(store) <= Len(last.handed)

\* A Forget given a tuple once while two messages had recorded it: the older
\* occurrence is gone, the newer one is still there.
C2_Witness ==
    /\ last.op = "Forget"
    /\ last.outcome = "ok"
    /\ \E t \in Range(last.handed) :
          /\ CountIn(last.handed, t) = 1
          /\ Count(last.before, last.tag, t) = 2
          /\ Count(store, last.tag, t) = 1
          /\ Occurrences(last.before, last.tag, t)[1].id = 1
          /\ Occurrences(store, last.tag, t)[1].id = 2

\* C4: Learn and Forget hand the backend exactly k+1 tuples for k tokens, in
\* one call, each with a prefix of exactly Order() entries, the last one with
\* the sentinel as suffix.
C4_HandsKPlusOneTuples ==
    (last.op \in {"Learn", "Forget"} /\ order >= 1) =>
        /\ last.invoked = <<last.op>>
        /\ Len(last.handed) = Len(last.toks) + 1
        /\ \A i \in 1..Len(last.handed) : Len(last.handed[i].Prefix) = order
        /\ last.handed[Len(last.handed)].Suffix = Sentinel

\* A Learn of no tokens at all under order 2: one tuple, the end tuple.
C4_Witness ==
    /\ last.op = "Learn"
    /\ order = 2
    /\ last.toks = <<>>
    /\ last.handed = << Tuple(<<"", "">>, "") >>

\* C7: a lookup under a tag returns only occurrences of messages learned under
\* that tag, and a Forget under a tag leaves the occurrences filed under every
\* other tag as they were.
C7_TagIsolation ==
    /\ last.op = "Lookup" =>
          \A i \in 1..Len(last.found) : filed[last.found[i].id] = last.tag
    /\ last.op = "Forget" =>
          \A tag \in Tags \ {last.tag} : Under(store, tag) = Under(last.before, tag)

\* A lookup under B that finds something while A holds, for the same prefix,
\* a suffix that was never learned under B.
C7_Witness ==
    /\ last.op = "Lookup"
    /\ last.tag = "B"
    /\ last.found # <<>>
    /\ \E i \in 1..Len(store) :
          /\ store[i].tag = "A"
          /\ store[i].prefix = last.toks
          /\ \A j \in 1..Len(store) : store[j].tag = "B" => store[j].suffix # store[i].suffix

\* C9: a Forget none of whose tuples is recorded under its tag leaves the
\* store as it was and ends without an error.
C9_ForgetAbsentIsNoOp ==
    (/\ last.op = "Forget"
     /\ order >= 1
     /\ \A i \in 1..Len(last.handed) : Count(last.before, last.tag, last.handed[i]) = 0) =>
        /\ store = last.before
        /\ last.outcome = "ok"

\* A Forget of tokens that are recorded under the other tag only.
C9_Witness ==
    /\ last.op = "Forget"
    /\ last.outcome = "ok"
    /\ last.handed # <<>>
    /\ \A i \in 1..Len(last.handed) :
          /\ Count(last.before, last.tag, last.handed[i]) = 0
          /\ \E tag \in Tags : Count(last.before, tag, last.handed[i]) > 0

\* C10: with Order() below 1, Learn and Forget panic: no tuples are handed to
\* the backend, no backend operation is invoked, the store is unchanged, and
\* the call does not end with an error value or a success.
C10_OrderBelowOnePanics ==
    (last.op \in {"Learn", "Forget"} /\ order < 1) =>
        /\ last.outcome = "panic"
        /\ last.handed = <<>>
        /\ last.invoked = <<>>
        /\ store = last.before

\* A Forget under order 0 over a store that holds the tuples it names.
C10_Witness ==
    /\ last.op = "Forget"
    /\ order = 0
    /\ last.outcome = "panic"
    /\ store # <<>>
    /\ \E i \in 1..Len(store) : store[i].tag = last.tag /\ store[i].suffix \in Range(last.toks)

\* ------------------------------------------------------------------ robot.go: learning and walking

\* The words of a message: strings.Split of the text on " ", so that a
\* doubled or trailing space gives an empty word.
WordSet == {<<>>, <<"a">>, <<"B">>, <<SOH>>}

\* The messages the bot learns from under its default -regexignore: at least
\* one word, not beginning with \x01 and, not being CTCP, not ending with it.
Messages ==
    {m \in SeqsUpTo(WordSet, MaxWords) :
        /\ Len(m) >= 1
        /\ m[1] # <<SOH>>
        /\ m[Len(m)] # <<SOH>>}

\* The suffixes a walk can draw from the chain.
Picks == (WordSet \cup {EndWord})

InitWalk ==
    /\ prefix \in 1..MaxPrefix
    /\ chain = <<>>
    /\ learned = 0
    /\ walk = NoWalk
    /\ BrainIdle
    /\ BuildIdle
    /\ MoreIdle

\* A PRIVMSG the bot learns from: Filter(chain, words).
LearnMsg ==
    \E words \in Messages :
        /\ walk.pc \in {"idle", "done"}
        /\ learned < MaxLearned
        /\ chain' = Filter(chain, words, prefix)
        /\ learned' = learned + 1
        /\ UNCHANGED <<prefix, walk, brainVars, build, moreVars>>

\* Walk(chain, strings.Repeat("\x01 ", prefix)) is called.
StartWalk ==
    /\ walk.pc \in {"idle", "done"}
    /\ walk' = [pc |-> "loop", word |-> StartKey(prefix), sum |-> 0, s |-> <<>>,
                iter |-> 0]
    /\ UNCHANGED <<prefix, chain, learned, brainVars, build, moreVars>>

\* An iteration of the walk's loop that finds no suffixes: words == nil.
WalkMiss ==
    /\ walk.pc = "loop"
    /\ ToLower(walk.word) \notin DOMAIN chain
    /\ walk' = WalkIter(chain, walk, 1)
    /\ chain' = WalkChain(chain, walk)
    /\ UNCHANGED <<prefix, learned, brainVars, build, moreVars>>

\* An iteration of the walk's loop in which rand.Intn draws the suffix w.
WalkPick(w) ==
    /\ walk.pc = "loop"
    /\ ToLower(walk.word) \in DOMAIN chain
    /\ \E pick \in 1..Len(chain[ToLower(walk.word)]) :
          /\ chain[ToLower(walk.word)][pick] = w
          /\ walk' = WalkIter(chain, walk, pick)
    /\ chain' = WalkChain(chain, walk)
    /\ UNCHANGED <<prefix, learned, brainVars, build, moreVars>>

WalkStep ==
    \/ WalkMiss
    \/ \E w \in Picks : WalkPick(w)

NextWalk ==
    \/ LearnMsg
    \/ StartWalk
    \/ WalkStep

SpecWalk == InitWalk /\ [][NextWalk]_vars

\* The walk's goroutine keeps running its loop, and rand.Intn draws every
\* suffix it can draw infinitely often again and again.
FairWalk ==
    /\ SpecWalk
    /\ WF_vars(WalkStep)
    /\ \A w \in Picks : SF_vars(WalkPick(w))

\* C6: every walk that has entered its loop leaves it.
C6_WalkTerminates == (walk.pc = "loop") ~> (walk.pc # "loop")

\* ------------------------------------------------------------------ one message learned, then generated

\* A word as long as the walk's limit allows for one more word after it.
LongWord == [i \in 1..(WalkLimit - 1) |-> "a"]

\* The tokens of the message that is learned; "" is the empty word a doubled
\* space yields in robot.go.
ReplayTokens == {"a", "B", "long", ""}

\* The word of robot.go a token stands for.
WordOf(tok) ==
    CASE tok = "a" -> <<"a">>
      [] tok = "B" -> <<"B">>
      [] tok = "b" -> <<"b">>
      [] tok = "long" -> LongWord
      [] OTHER -> <<>>

Words(toks) == [i \in 1..Len(toks) |-> WordOf(toks[i])]

ReplayPicks == {WordOf(t) : t \in ReplayTokens} \cup {EndWord}

InitReplay ==
    /\ prefix \in 1..MaxPrefix
    /\ chain = <<>>
    /\ learned = 0
    /\ walk = NoWalk
    /\ build \in {[n |-> prefix, toks |-> t, tt |-> <<>>, done |-> FALSE] :
                    t \in SeqsUpTo(ReplayTokens, MaxWords) \ {<<>>}}
    /\ BrainIdle
    /\ MoreIdle

\* The message is learned: by Filter into the chain of robot.go, and its
\* tuples are built by tupleToks as the engine's Learn builds them.
Teach ==
    /\ ~build.done
    /\ walk.pc \in {"idle", "done"}
    /\ chain' = Filter(chain, Words(build.toks), prefix)
    /\ learned' = learned + 1
    /\ build' = [build EXCEPT !.tt = tupleToks(<<>>, build.toks, build.n), !.done = TRUE]
    /\ UNCHANGED <<prefix, walk, brainVars, moreVars>>

NextReplay ==
    \/ Teach
    \/ StartWalk
    \/ WalkMiss
    \/ \E w \in ReplayPicks : WalkPick(w)

SpecReplay == InitReplay /\ [][NextReplay]_vars

\* C11: a walk over a chain that has nothing under the start key ends at its
\* first lookup, normally, with empty output.
C11_UntrainedWalkIsEmpty ==
    (walk.pc \notin {"idle", "loop"} /\ StartKey(prefix) \notin DOMAIN chain)
        => (walk.pc = "done" /\ walk.s = <<>> /\ walk.sum = 0 /\ walk.iter = 1)

C11_Witness ==
    /\ walk.pc = "done"
    /\ walk.iter = 1
    /\ chain = <<>>
    /\ ~build.done

\* ------------------------------------------------------------------ the engine over a backend that fails

\* The errors a backend's Learn or Forget may return for a call: ones that
\* say nothing of the call (an I/O error, the context's cancellation) and ones
\* the backend has wrapped with the operation and the tag.
BackendErrors(op, tag) ==
    {[kind |-> "io", op |-> "", tag |-> ""],
     [kind |-> "canceled", op |-> "", tag |-> ""],
     [kind |-> "io", op |-> op, tag |-> tag]}

\* Token sequences of the messages learned and forgotten over such a backend.
FaultyCorpus == {<<>>, <<"hi">>}

\* The engine that drops the backend's error.
ReturnedNil(berr) == NoError

\* return l.Learn(ctx, meta, tt) / return l.Forget(ctx, tag, tt): the error of
\* the engine's call is the value the backend's call returned.
Returned(berr) == berr

\* How a call that returns the error e ends for its caller.
Outcome(e) == IF e = NoError THEN "ok" ELSE "error"

\* brain.Learn over a backend whose Learn returns berr, having persisted the
\* first kept tuples when it fails.
LearnVia(st, n, meta, toks, berr, kept) ==
    IF berr = NoError \/ n < 1 THEN Learn(st, n, meta, toks)
    ELSE LET tt == tupleToks(<<>>, toks, n)
         IN Result(Outcome(Returned(berr)),
                   LearnerLearn(st, meta, SubSeq(tt, 1, Min(kept, Len(tt)))),
                   tt, <<"Learn">>)

\* brain.Forget over a backend whose Forget returns berr, having deleted for
\* the first kept tuples when it fails.
ForgetVia(st, n, tag, toks, berr, kept) ==
    IF berr = NoError \/ n < 1 THEN Forget(st, n, tag, toks)
    ELSE LET tt == tupleToks(<<>>, toks, n)
         IN Result(Outcome(Returned(berr)),
                   LearnerForget(st, tag, SubSeq(tt, 1, Min(kept, Len(tt)))),
                   tt, <<"Forget">>)

\* What the engine's caller gets when the backend returned berr under order n.
FaultOf(n, berr) ==
    IF n < 1 THEN NoFault ELSE [backend |-> berr, returned |-> Returned(berr)]

\* brain.Learn(ctx, l, meta, toks) over a backend that may fail.
DoLearnVia ==
    \E tag \in Tags, toks \in FaultyCorpus, kept \in 0..2 :
      \E berr \in {NoError} \cup BackendErrors("Learn", tag) :
        /\ nextId <= MaxMsgs
        /\ kept <= Len(toks) + 1
        /\ berr = NoError => kept = 0
        /\ LET meta == [ID |-> nextId, Tag |-> tag]
               r == LearnVia(store, order, meta, toks, berr, kept)
           IN /\ store' = r.store
              /\ last' = Call("Learn", tag, toks, nextId, r, store, FALSE, store, <<>>)
        /\ fault' = FaultOf(order, berr)
        /\ nextId' = nextId + 1
        /\ filed' = Append(filed, tag)
        /\ UNCHANGED <<order, build, botVars, batch, bot, dict, evt>>

\* brain.Forget(ctx, l, tag, toks) over a backend that may fail.
DoForgetVia ==
    \E tag \in Tags, toks \in FaultyCorpus, kept \in 0..2 :
      \E berr \in {NoError} \cup BackendErrors("Forget", tag) :
        /\ kept <= Len(toks) + 1
        /\ berr = NoError => kept = 0
        /\ LET r == ForgetVia(store, order, tag, toks, berr, kept)
           IN /\ store' = r.store
              /\ last' = Call("Forget", tag, toks, 0, r, store, FALSE, store, <<>>)
        /\ fault' = FaultOf(order, berr)
        /\ UNCHANGED <<order, nextId, filed, build, botVars, batch, bot, dict, evt>>

NextFaulty ==
    \/ DoLearnVia
    \/ DoForgetVia

SpecFaulty == Init /\ [][NextFaulty]_vars

\* C12 as written: when the backend's Learn or Forget returns an error, the
\* engine has invoked that operation exactly once and returns an error that
\* names the operation and the tag that failed.
C12_ErrorCarriesContext ==
    (fault.backend # NoError)
        => /\ last.invoked = <<last.op>>
           /\ last.outcome = "error"
           /\ fault.returned.op = last.op
           /\ fault.returned.tag = last.tag

\* C12: when the backend's Learn or Forget returns an error, the engine has
\* invoked that operation exactly once and returns to its caller the very
\* error the backend returned, with nothing added and nothing dropped.
C12_ErrorReturnedAsIs ==
    (fault.backend # NoError)
        => /\ last.invoked = <<last.op>>
           /\ last.outcome = "error"
           /\ fault.returned = fault.backend

C12_Witness ==
    /\ last.op = "Forget"
    /\ fault.backend.kind = "io"
    /\ fault.returned.tag = ""
    /\ store # <<>>

\* ------------------------------------------------------------------ cliSpeak: the batch of walks

\* What brain.Speak may return under a context that is live or done: a whole
\* message (possibly empty) and nil, or an error along with whatever it had
\* generated so far; cancellation is reported only once ctx is done.
SpeakResults(ctx) ==
    {[m |-> m, err |-> NoError] : m \in {"", "whole"}}
        \cup {[m |-> m, err |-> [kind |-> "io", op |-> "", tag |-> ""]] : m \in {"", "part"}}
        \cup (IF ctx = "done"
              THEN {[m |-> m, err |-> [kind |-> "canceled", op |-> "", tag |-> ""]] :
                        m \in {"", "part"}}
              ELSE {})

\* errgroup: the first error a function returns is kept and cancels ctx.
GroupError(b, e) ==
    [b EXCEPT !.first = IF b.first = NoError THEN e ELSE b.first,
              !.ctx = IF e # NoError THEN "done" ELSE b.ctx]

\* The worker that prints what Speak returned before it looks at the error.
WorkerPrintsFirst(b, i, res) ==
    LET printed == [b EXCEPT !.out = Append(b.out, [by |-> i, m |-> res.m])]
    IN IF res.err # NoError THEN [GroupError(printed, res.err) EXCEPT !.w[i] = "err"]
       ELSE [printed EXCEPT !.w[i] = "ok"]

\* The function cliSpeak hands to group.Go, run as worker i with res what
\* brain.Speak returned.
Worker(b, i, res) ==
    IF res.err # NoError THEN [GroupError(b, res.err) EXCEPT !.w[i] = "err"]
    ELSE [b EXCEPT !.out = Append(b.out, [by |-> i, m |-> res.m]), !.w[i] = "ok"]

InitSpeak ==
    /\ batch \in {[NoBatch EXCEPT !.w = [i \in 1..n |-> "todo"]] : n \in 0..MaxWalks}
    /\ fault = NoFault
    /\ bot = NoBot
    /\ dict = NoFile
    /\ evt = NoEvent
    /\ BrainIdle
    /\ BuildIdle
    /\ BotIdle

\* The context cliSpeak was given is canceled (the command is interrupted).
Cancel ==
    /\ ~batch.ret.done
    /\ batch.ctx = "live"
    /\ batch' = [batch EXCEPT !.ctx = "done"]
    /\ UNCHANGED <<brainVars, build, botVars, fault, bot, dict, evt>>

\* A worker runs its walk to the end.
Work ==
    \E i \in DOMAIN batch.w, res \in SpeakResults(batch.ctx) :
        /\ batch.w[i] = "todo"
        /\ batch' = Worker(batch, i, res)
        /\ UNCHANGED <<brainVars, build, botVars, fault, bot, dict, evt>>

\* return group.Wait(): all workers are done, their first error is returned.
Wait ==
    /\ ~batch.ret.done
    /\ \A i \in DOMAIN batch.w : batch.w[i] # "todo"
    /\ batch' = [batch EXCEPT !.ret = [done |-> TRUE, err |-> batch.first]]
    /\ UNCHANGED <<brainVars, build, botVars, fault, bot, dict, evt>>

NextSpeak ==
    \/ Cancel
    \/ Work
    \/ Wait

SpecSpeak == InitSpeak /\ [][NextSpeak]_vars

\* C13: a worker whose Speak returned an error has printed nothing, what is
\* printed is never the partial message of a failed walk, and once a worker has
\* failed the command returns a non-nil error.
C13_FailedWalkPrintsNothing ==
    /\ \A i \in DOMAIN batch.w :
          batch.w[i] = "err"
              => /\ \A k \in 1..Len(batch.out) : batch.out[k].by # i
                 /\ batch.ret.done => batch.ret.err # NoError
    /\ \A k \in 1..Len(batch.out) : batch.out[k].m # "part"

C13_Witness ==
    /\ batch.ret.done
    /\ batch.ret.err.kind = "canceled"
    /\ \E i \in DOMAIN batch.w : batch.w[i] = "err"
    /\ Len(batch.out) >= 1

\* ------------------------------------------------------------------ robot.go: the main loop

\* Names as they stand in a message's prefix and as an admin types them.
Names == {"bob", "Bob"}

\* strings.ToLower on a name.
LowerName(n) == IF n = "Bob" THEN "bob" ELSE n

\* The channels the bot is in: "#s" is given by -channel.
Channels == {"#s", "#l"}

\* Send probabilities and draws of rand.Float64(), in hundredths.
Probs == {0, 50, 100}
Draws == {0, 99}

\* The texts of the PRIVMSGs received, as their words (stuff[3:] without the
\* colon); the bot's nick is "b".
BotTexts ==
    {<<<<"a">>>>,
     <<<<"a">>, <<"a">>>>,
     <<<<"B">>, <<"a">>>>,
     <<<<"!", "a">>>>,
     <<<<SOH, "a", SOH>>>>,
     <<<<"B">>, <<"a", SOH>>>>}

\* strings.Contains(strings.ToLower(words[0]), strings.ToLower(nick))
Addressed(words) == "b" \in Range(ToLower(words[1]))

\* What regexp.Compile makes of the expression of -regexignore or of the
\* regexignore command: nil when it does not compile.
Compile(expr) == IF expr = "(" THEN "nil" ELSE expr

Exprs == {"^!|^\\001", "a", "("}

\* re.MatchString(text) for the expressions above.
ReMatch(re, text) ==
    CASE re = "^!|^\\001" -> text[1] = "!" \/ text[1] = SOH
      [] re = "a" -> "a" \in Range(text)
      [] OTHER -> FALSE

\* A CTCP message: its text is wrapped in \x01.
IsCTCP(text) == text[1] = SOH /\ text[Len(text)] = SOH

\* The event loop while it handles lines.
Running == bot.pc \in {"run", "exiting"}

\* A PRIVMSG that is not a command, from raw in channel ch, with rand.Float64()
\* giving draw if it is called; original tells whether badmatch lets what Walk
\* generated through.
Privmsg ==
    \E raw \in Names, ch \in Channels, words \in BotTexts, draw \in Draws, original \in BOOLEAN :
        /\ Running
        /\ learned < MaxLearned
        /\ LET from == LowerName(raw)
               text == Join(words, <<SP>>)
               addressed == Addressed(words)
               matched == bot.re # "nil" /\ ReMatch(bot.re, text)
               heard == /\ from \notin bot.ignored
                        /\ ~(~addressed /\ matched)
                        /\ text[Len(text)] # SOH
               learns == heard /\ ~addressed
               c == IF learns THEN Filter(chain, words, prefix) ELSE chain
               generated == heard /\ ch \in bot.chanset /\ (addressed \/ draw < bot.sendprob)
           IN /\ original => (generated /\ c # <<>>)
              /\ chain' = c
              /\ learned' = IF learns THEN learned + 1 ELSE learned
              /\ evt' = [kind |-> "privmsg",
                         onlist |-> \E n \in bot.ignored : LowerName(n) = from,
                         addressed |-> addressed,
                         matched |-> matched,
                         ctcp |-> IsCTCP(text),
                         heard |-> heard,
                         listen |-> ch \in bot.listening,
                         speak |-> ch \in bot.chanset,
                         lucky |-> draw < bot.sendprob,
                         generated |-> generated,
                         replied |-> original,
                         changed |-> c # chain]
        /\ UNCHANGED <<prefix, walk, bot, dict, brainVars, build, fault, batch>>

\* The handling of a command: the settings change, nothing is learned.
Command(b) ==
    /\ Running
    /\ bot' = b
    /\ evt' = [kind |-> "command"]
    /\ UNCHANGED <<botVars, dict, brainVars, build, fault, batch>>

\* join c: chanset[c] = true
Join1 ==
    \E c \in Channels :
        Command([bot EXCEPT !.chanset = @ \cup {c}, !.listening = @ \ {c}])

\* listen c: chanset[c] = false
Listen ==
    \E c \in Channels :
        Command([bot EXCEPT !.chanset = @ \ {c}, !.listening = @ \cup {c}])

\* part c: chanset[c] = false
Part ==
    \E c \in Channels :
        Command([bot EXCEPT !.chanset = @ \ {c}, !.listening = @ \ {c}])

\* sendprob v
Sendprob == \E v \in Probs : Command([bot EXCEPT !.sendprob = v])

\* ignore c: ignored[c] = true
Ignore == \E c \in Names : Command([bot EXCEPT !.ignored = @ \cup {c}])

\* unignore c: ignored[c] = false
Unignore == \E c \in Names : Command([bot EXCEPT !.ignored = @ \ {c}])

\* respond on|off
Respond == \E v \in BOOLEAN : Command([bot EXCEPT !.respond = v])

\* regexignore expr
Regexignore == \E e \in Exprs : Command([bot EXCEPT !.re = Compile(e)])

\* The settings after the flags are parsed: -respond and -regexignore at their
\* defaults, -ignore lowercased, the channels of -listen joined.
InitLoop ==
    /\ bot \in {[pc |-> "run", respond |-> TRUE, sendprob |-> v, chanset |-> {"#s"},
                 listening |-> l, ignored |-> {LowerName(n) : n \in i}, re |-> "^!|^\\001"] :
                    v \in {0, 50}, l \in {{}, {"#l"}}, i \in {{}, {"Bob"}}}
    /\ prefix = 1
    /\ chain = <<>>
    /\ learned = 0
    /\ walk = NoWalk
    /\ dict = NoFile
    /\ evt = NoEvent
    /\ fault = NoFault
    /\ batch = NoBatch
    /\ BrainIdle
    /\ BuildIdle

NextLoop ==
    \/ Privmsg
    \/ Join1
    \/ Listen
    \/ Part
    \/ Sendprob
    \/ Ignore
    \/ Unignore
    \/ Respond
    \/ Regexignore

SpecLoop == InitLoop /\ [][NextLoop]_vars

\* C16: an addressed message the bot hears in a channel in which it speaks
\* triggers generation when respond is on; when respond is off it triggers
\* generation exactly when the draw against the send probability succeeds.
C16_RespondDecides ==
    (evt.kind = "privmsg" /\ evt.heard /\ evt.addressed /\ evt.speak)
        => /\ bot.respond => evt.generated
           /\ ~bot.respond => (evt.generated <=> evt.lucky)

\* C17: in a channel joined for listening, a message that is not addressed to
\* the bot gets no PRIVMSG from it, and an addressed message the bot hears has a
\* reply generated.
C17_ListenSpeaksWhenAddressed ==
    (evt.kind = "privmsg" /\ evt.listen)
        => /\ ~evt.addressed => ~evt.replied
           /\ (evt.addressed /\ evt.heard) => evt.generated

\* C18: a PRIVMSG whose sender is on the ignore list, whose text matches the
\* ignore expression or that is CTCP leaves the chain as it was.
C18_IgnoredIsNotLearned ==
    (evt.kind = "privmsg" /\ (evt.onlist \/ evt.matched \/ evt.ctcp)) => ~evt.changed

\* ------------------------------------------------------------------ robot.go: stopping and the dict file

RECURSIVE Quote(_)
\* A string as encoding/json writes it: control bytes become \u00XX.
Quote(str) ==
    IF str = <<>> THEN <<>>
    ELSE (CASE Head(str) = SOH -> <<"\\", "u", "0", "0", "0", "1">>
            [] Head(str) = NUL -> <<"\\", "u", "0", "0", "0", "0">>
            [] OTHER -> <<Head(str)>>) \o Quote(Tail(str))

RECURSIVE Unquote(_)
\* A string as encoding/json reads it.
Unquote(q) ==
    IF q = <<>> THEN <<>>
    ELSE IF Head(q) = "\\"
         THEN <<IF q[6] = "1" THEN SOH ELSE NUL>> \o Unquote(SubSeq(q, 7, Len(q)))
         ELSE <<Head(q)>> \o Unquote(Tail(q))

\* ioutil.WriteFile(dict, json.Marshal(chain)): the file as a JSON object, a
\* set of members, each key with the array of its suffixes.
Marshal(c) ==
    [exists |-> TRUE,
     json |-> {<<Quote(k), [i \in 1..Len(c[k]) |-> Quote(c[k][i])]>> : k \in DOMAIN c}]

\* The chain main starts with: empty when the file cannot be read, else what
\* json.Unmarshal makes of it.
Load(d) ==
    IF ~d.exists THEN <<>>
    ELSE [k \in {Unquote(m[1]) : m \in d.json} |->
            LET m == CHOOSE m \in d.json : Unquote(m[1]) = k
            IN [i \in 1..Len(m[2]) |-> Unquote(m[2][i])]]

\* The settings of the run whose stopping is followed.
InitStop ==
    /\ bot = [pc |-> "run", respond |-> TRUE, sendprob |-> 50, chanset |-> {"#s"},
              listening |-> {}, ignored |-> {}, re |-> "^!|^\\001"]
    /\ prefix \in 1..MaxPrefix
    /\ dict = NoFile
    /\ chain = Load(dict)
    /\ learned = 0
    /\ walk = NoWalk
    /\ evt = NoEvent
    /\ fault = NoFault
    /\ batch = NoBatch
    /\ BrainIdle
    /\ BuildIdle

\* end(): the chain is written to the dict file, and only when that worked is
\* complete set and the exit timer armed; written tells whether
\* ioutil.WriteFile succeeded.
End(kind, written) ==
    /\ Running
    /\ dict' = IF written THEN Marshal(chain) ELSE dict
    /\ bot' = [bot EXCEPT !.pc = IF written THEN "exiting" ELSE @]
    /\ evt' = [kind |-> kind, written |-> written]
    /\ UNCHANGED <<botVars, brainVars, build, fault, batch>>

\* case <-isig: end()
Interrupt == \E written \in BOOLEAN : End("interrupt", written)

\* case "quit": send <- "QUIT :..."; end()
Quit == \E written \in BOOLEAN : End("quit", written)

\* time.AfterFunc(5*time.Second, func() { os.Exit(0) })
ExitTimer ==
    /\ bot.pc = "exiting"
    /\ bot' = [bot EXCEPT !.pc = "stopped"]
    /\ evt' = [kind |-> "exit"]
    /\ UNCHANGED <<botVars, dict, brainVars, build, fault, batch>>

\* case <-ksig, and log.Fatalln in sender and recver on a network error: the
\* program ends, end() is not called.
Kill ==
    /\ Running
    /\ bot' = [bot EXCEPT !.pc = "stopped"]
    /\ evt' = [kind |-> "killed"]
    /\ UNCHANGED <<botVars, dict, brainVars, build, fault, batch>>

\* The bot is started again with the same flags: the chain is loaded from the
\* dict file; held is the chain the run before held when it stopped.
Restart ==
    /\ bot.pc = "stopped"
    /\ bot' = [bot EXCEPT !.pc = "run"]
    /\ chain' = Load(dict)
    /\ evt' = [kind |-> "restart", held |-> chain]
    /\ UNCHANGED <<prefix, learned, walk, dict, brainVars, build, fault, batch>>

NextStop ==
    \/ Privmsg
    \/ Interrupt
    \/ Quit
    \/ ExitTimer
    \/ Kill
    \/ Restart

SpecStop == InitStop /\ [][NextStop]_vars

\* C14: once the interrupt signal or the quit command has been handled, the
\* program has ended or its exit is under way.
C14_StopRequestStops ==
    (evt.kind \in {"interrupt", "quit"}) => (bot.pc \in {"exiting", "stopped"})

\* C15: the chain a restarted bot loads from the dict file is the chain the
\* bot held when it stopped.
C15_RestartRemembers ==
    (evt.kind = "restart") => (chain = evt.held)

\* ------------------------------------------------------------------ generation against what was learned

\* C19: every step of a walk, from its start to its end, whatever it draws,
\* leaves the chain as it was; the chain changes only when a message is
\* learned.
C19_WalkLeavesChain ==
    [][/\ (walk' # walk) => (chain' = chain)
       /\ (chain' # chain) => (learned' = learned + 1 /\ walk' = walk)]_vars

C19_Witness ==
    /\ walk.pc = "done"
    /\ Len(walk.s) >= 2
    /\ build.done
    /\ chain = Filter(<<>>, Words(build.toks), prefix)

\* The tokens of a message as the engine takes them: none is empty.
Ordinary(toks) == \A i \in 1..Len(toks) : toks[i] # Sentinel

RECURSIVE Cost(_)
\* What Walk's sum has reached once it has drawn all of words.
Cost(words) == IF words = <<>> THEN 0 ELSE Len(Head(words)) + 1 + Cost(Tail(words))

RECURSIVE Replay(_, _, _, _, _)
\* The walk from w that draws words[i], words[i+1], ... and then the end of
\* the message, as far as the chain and the loop let it: the keys it looks up
\* and whether it got to draw the end.
Replay(c, w, words, i, keys) ==
    LET key == ToLower(w.word)
        want == IF i > Len(words) THEN EndWord ELSE words[i]
    IN IF w.pc # "loop" THEN [ok |-> FALSE, keys |-> keys]
       ELSE IF key \notin DOMAIN c \/ want \notin Range(c[key])
            THEN [ok |-> FALSE, keys |-> Append(keys, key)]
       ELSE IF i > Len(words) THEN [ok |-> TRUE, keys |-> Append(keys, key)]
       ELSE Replay(c, WalkIter(c, w, CHOOSE k \in 1..Len(c[key]) : c[key][k] = want),
                   words, i + 1, Append(keys, key))

\* The walk over the chain c of order n that tries to generate words.
ReplayOf(c, words, n) ==
    Replay(c, [pc |-> "loop", word |-> StartKey(n), sum |-> 0, s |-> <<>>, iter |-> 0],
           words, 1, <<>>)

\* The window rule of the tuple builder: the first prefix is all sentinels,
\* each next one drops the oldest entry and takes the reduced suffix.
WindowRule(tt, n) ==
    /\ tt # <<>>
    /\ tt[1].Prefix = EmptyPrefix(n)
    /\ \A i \in 1..(Len(tt) - 1) :
          tt[i + 1].Prefix = Tail(tt[i].Prefix) \o <<ReduceEntropy(tt[i].Suffix)>>

\* The key of robot.go's chain that stands for a prefix of the builder.
KeyOf(p) ==
    Join([j \in 1..Len(p) |-> IF p[j] = Sentinel THEN StartWord ELSE WordOf(p[j])], <<SP>>)

\* The walk that generates the message learned looks up the builder's
\* prefixes, one tuple after the other, which are the keys of the chain, draws
\* the builder's suffixes and gets to the end of the message.
WalksTheTuples(c, tt, words, n) ==
    LET r == ReplayOf(c, words, n)
    IN /\ r.ok
       /\ Range(r.keys) = DOMAIN c
       /\ Len(r.keys) = Len(tt)
       /\ \A i \in 1..Len(tt) : TrimRight(r.keys[i]) = KeyOf(tt[i].Prefix)
       /\ \A i \in 1..Len(words) : WordOf(tt[i].Suffix) = words[i]

====
